---- MODULE Spec2Model ----
(***************************************************************************)
(* A model of bw2analyzer/report.py: the class SerializedLCAReport.        *)
(*                                                                         *)
(* Numbers.  Monte Carlo samples are integers.  Every derived quantity     *)
(* that numpy keeps as a float is kept as an integer numerator over a      *)
(* denominator that is stated next to it, so that no rounding is hidden:   *)
(*   outliers          thousandths            (25 is 0.025)                *)
(*   median            halves                 (median2 = 2 * median)       *)
(*   mean              [num, den]                                          *)
(*   kde_xs            1 / (KdePoints - 1)                                 *)
(*   hist_xs           1 / (2 * num_bins)                                  *)
(*   hist_ys           1 / (n * (hi2 - lo2))                               *)
(* int(f * n) of the source is the floor of the exact product.             *)
(*                                                                         *)
(* Strings that the code concatenates are sequences of pieces; the piece   *)
(* "/" is the slash character.                                             *)
(***************************************************************************)
EXTENDS Integers, Sequences, FiniteSets, TLC

VARIABLES
    iterations,   \* self.iterations
    cpus,         \* self.cpus
    outliers,     \* self.outliers, in thousandths
    uuid,         \* self.uuid
    config,       \* brightway2 config.p: upload_reports, report_server_url
    report,       \* self.report: [set |-> FALSE] until calculate() assigns it
    pc,           \* position inside calculate(): collaborators that have returned
    log,          \* collaborator calls of the current or last calculate(), in order
    mc,           \* the frame of the last direct get_monte_carlo() call
    files,        \* names of the files write() has written
    ret           \* the last public call: how it ended, what it returned or
                  \* raised, the URL it POSTed to, the status of the answer

vars == <<iterations, cpus, outliers, uuid, config, report, pc, log, mc,
          files, ret>>

(***************************************************************************)
(* Bounds of the model.                                                    *)
(***************************************************************************)
MaxIter == 4      \* sample counts 0..MaxIter get every sample sequence
BigIter == 70     \* one large sample count, with samples of a given shape
MaxTail == 2      \* at most this many extreme samples at each end (BigIter)
MaxVal == 3       \* sample values are 1..MaxVal
LifeIter == 3     \* sample counts 0..LifeIter in the report life cycle

(***************************************************************************)
(* Constants of the program.                                               *)
(***************************************************************************)
version == 1
LowerMille == 15
UpperMille == 985
MinBins == 100
CapBins == 20
KdePoints == 500
StatusOK == 200

Values == 1..MaxVal
None == [none |-> TRUE]

Min2(a, b) == IF a <= b THEN a ELSE b
Max2(a, b) == IF a >= b THEN a ELSE b

(***************************************************************************)
(* numpy and Python primitives that get_monte_carlo uses.                  *)
(***************************************************************************)
\* int(f * n) for f = mille / 1000, f * n >= 0
IntOfProduct(mille, n) == (mille * n) \div 1000

\* int(np.sqrt(n))
IntSqrt(n) == CHOOSE r \in 0..n : r * r <= n /\ (r + 1) * (r + 1) > n

\* the values an array holds
Range(s) == {s[i] : i \in DOMAIN s}

\* ndarray.sort(): ascending.  Position i gets the value v that has fewer
\* than i elements below it and at least i elements not above it.
Sort(s) ==
    [i \in 1..Len(s) |->
        CHOOSE v \in Range(s) :
            /\ Cardinality({j \in DOMAIN s : s[j] < v}) < i
            /\ Cardinality({j \in DOMAIN s : s[j] <= v}) >= i]

\* np.unique(a).shape[0]
UniqueCount(s) == Cardinality(Range(s))

\* a[start:stop] of Python: a negative bound counts from the end, and both
\* are clamped to the length.  Note that -0 is 0.
SliceBound(b, len) == IF b < 0 THEN Max2(len + b, 0) ELSE Min2(b, len)
PySlice(s, start, stop) ==
    LET a == SliceBound(start, Len(s))
        b == SliceBound(stop, Len(s))
    IN  IF a >= b THEN <<>> ELSE SubSeq(s, a + 1, b)

\* a[i] of Python for 0 <= i < len; anything else is no element
InRange(s, i) == i >= 0 /\ i < Len(s)
PyIndex(s, i) == s[i + 1]

\* np.repeat(a, 2)
Repeat2(s) == [i \in 1..(2 * Len(s)) |-> s[(i + 1) \div 2]]

\* zip(a, b): pairs, as many as the shorter has
Zip(a, b) == [i \in 1..Min2(Len(a), Len(b)) |-> <<a[i], b[i]>>]

\* the sum of the elements, value by value
RECURSIVE SumValues(_, _)
SumValues(S, s) ==
    IF S = {} THEN 0
    ELSE LET v == CHOOSE x \in S : TRUE
         IN  v * Cardinality({i \in DOMAIN s : s[i] = v}) + SumValues(S \ {v}, s)
SumSeq(s) == SumValues(Range(s), s)

\* ndarray.min(), ndarray.max() of an array that is not empty
SeqMin(s) == CHOOSE x \in Range(s) : \A y \in Range(s) : x <= y
SeqMax(s) == CHOOSE x \in Range(s) : \A y \in Range(s) : x >= y

\* 2 * np.median(s), s sorted and not empty
Median2(s) ==
    LET n == Len(s)
    IN  IF n % 2 = 1 THEN 2 * s[(n + 1) \div 2]
        ELSE s[n \div 2] + s[n \div 2 + 1]

\* np.mean(s), s not empty
Mean(s) == [num |-> SumSeq(s), den |-> Len(s)]

\* np.linspace(lo, hi, num), in units of 1 / (num - 1)
Linspace(lo, hi, num) ==
    [i \in 1..num |-> lo * (num - 1) + (i - 1) * (hi - lo)]

(***************************************************************************)
(* np.histogram(s, bins, density=True) for a sample s that is not empty.   *)
(* The range is [min, max], widened by 0.5 on each side when min = max.    *)
(* lo2 and hi2 are twice the range ends.                                   *)
(***************************************************************************)
HistLo2(s) == IF SeqMin(s) = SeqMax(s) THEN 2 * SeqMin(s) - 1 ELSE 2 * SeqMin(s)
HistHi2(s) == IF SeqMin(s) = SeqMax(s) THEN 2 * SeqMax(s) + 1 ELSE 2 * SeqMax(s)

\* the bin of value v: the last bin is closed on the right
BinOf(v, lo2, hi2, bins) ==
    IF 2 * v = hi2 THEN bins - 1
    ELSE ((2 * v - lo2) * bins) \div (hi2 - lo2)

\* the bins + 1 edges, in units of 1 / (2 * bins)
HistEdges(s, bins) ==
    LET lo2 == HistLo2(s)
        hi2 == HistHi2(s)
    IN  [i \in 1..(bins + 1) |-> lo2 * bins + (i - 1) * (hi2 - lo2)]

\* the bins heights, in units of 1 / (Len(s) * (hi2 - lo2))
HistDensity(s, bins) ==
    LET lo2 == HistLo2(s)
        hi2 == HistHi2(s)
        binOfSample == [i \in DOMAIN s |-> BinOf(s[i], lo2, hi2, bins)]
    IN  [b \in 1..bins |->
            2 * bins * Cardinality({i \in DOMAIN s : binOfSample[i] = b - 1})]

(***************************************************************************)
(* get_monte_carlo, line by line.                                          *)
(***************************************************************************)
\* (a faulty variant: the test compares with 0)
NoUncertaintyMutant(sorted) == UniqueCount(sorted) = 0

\* np.unique(mc_data).shape[0] == 1
NoUncertainty(sorted) == UniqueCount(sorted) = 1

\* offset = int(self.outliers * mc_data.shape[0])
Offset(out, n) == IntOfProduct(out, n)

\* (faulty variants: 0.15 for 0.015; 0.015 in both lines)
LowerIndexMutant(iter) == IntOfProduct(150, iter)
UpperIndexMutant(iter) == IntOfProduct(LowerMille, iter)

\* int(0.015 * self.iterations), int(0.985 * self.iterations)
LowerIndex(iter) == IntOfProduct(LowerMille, iter)
UpperIndex(iter) == IntOfProduct(UpperMille, iter)

\* mc_data[offset:-offset]
Trim(sorted, offset) == PySlice(sorted, offset, 0 - offset)

\* (a faulty variant: min and max the other way round)
NumBinsMutant(iter) == Min2(MinBins, Max2(CapBins, IntSqrt(iter)))

\* max(100, min(20, int(np.sqrt(self.iterations))))
NumBins(iter) == Max2(MinBins, Min2(CapBins, IntSqrt(iter)))

\* kde_xs; kde_ys are the density values of scipy's estimate, left opaque
Smoothed(trimmed) ==
    LET lo == SeqMin(trimmed)
        hi == SeqMax(trimmed)
    IN  Zip(Linspace(lo, hi, KdePoints), [i \in 1..KdePoints |-> "density"])

\* hist_xs = np.repeat(hist_xs, 2)
HistXs(trimmed, bins) == Repeat2(HistEdges(trimmed, bins))

\* hist_ys = np.hstack((0, np.repeat(hist_ys, 2), 0))
HistYs(trimmed, bins) == <<0>> \o Repeat2(HistDensity(trimmed, bins)) \o <<0>>

\* the returned mapping
Summary(trimmed, bins, lower, upper) ==
    [smoothed   |-> Smoothed(trimmed),
     histogram  |-> Zip(HistXs(trimmed, bins), HistYs(trimmed, bins)),
     statistics |-> [median2  |-> Median2(trimmed),
                     mean     |-> Mean(trimmed),
                     interval |-> <<lower, upper>>]]

(***************************************************************************)
(* The Monte Carlo sampler, ParallelMonteCarlo(...).calculate(): it is     *)
(* given iterations and cpus and returns iterations samples in any order,  *)
(* or fails.  Sample counts up to MaxIter get every sequence over Values;  *)
(* a larger count gets the sequences made of a copies of the largest       *)
(* value, then b copies of the smallest, then the value 2.                 *)
(***************************************************************************)
TailShape(n, a, b) ==
    [i \in 1..n |-> IF i <= a THEN MaxVal ELSE IF i <= a + b THEN 1 ELSE 2]

SamplerOutputs(n) ==
    IF n <= MaxIter THEN [1..n -> Values]
    ELSE {TailShape(n, a, b) : a \in 0..MaxTail, b \in 0..MaxTail}

(***************************************************************************)
(* A frame of get_monte_carlo: where the call ended (the source line),     *)
(* how, and the locals it had assigned by then.                            *)
(***************************************************************************)
NoFrame == [called |-> FALSE]

Frame(line, outcome, exc, value, sampled, raw, sorted, offset, trimmed, bins) ==
    [called |-> TRUE, line |-> line, outcome |-> outcome, exc |-> exc,
     value |-> value, sampled |-> sampled, raw |-> raw, sorted |-> sorted,
     offset |-> offset, trimmed |-> trimmed, num_bins |-> bins]

\* lines 85-109, entered with the interval read and the samples trimmed.
\* min() of an empty array raises.  scipy's estimate of a sample with a
\* single distinct value has a singular covariance: depending on the scipy
\* build the constructor raises or an estimate comes back.
Estimate(raw, sorted, iter, offset, lower, upper) ==
    LET trimmed == Trim(sorted, offset)
        bins == NumBins(iter)
        raised == Frame(90, "raise",
                        IF trimmed = <<>> THEN "ValueError" ELSE "LinAlgError",
                        None, TRUE, raw, sorted, offset, trimmed, bins)
        returned == Frame(101, "return", "", Summary(trimmed, bins, lower, upper),
                          TRUE, raw, sorted, offset, trimmed, bins)
    IN  IF trimmed = <<>> THEN {raised}
        ELSE IF UniqueCount(trimmed) = 1 THEN {raised, returned}
        ELSE {returned}

\* lines 76-84, entered with the sampler's result
AfterSampling(raw, iter, out) ==
    LET sorted == Sort(raw)
        offset == Offset(out, Len(sorted))
    IN  IF NoUncertainty(sorted)
        THEN {Frame(79, "return", "", None, TRUE, raw, sorted, -1, <<>>, -1)}
        ELSE IF ~InRange(sorted, LowerIndex(iter)) \/ ~InRange(sorted, UpperIndex(iter))
        THEN {Frame(82, "raise", "IndexError", None, TRUE, raw, sorted,
                    offset, <<>>, -1)}
        ELSE Estimate(raw, sorted, iter, offset,
                      PyIndex(sorted, LowerIndex(iter)),
                      PyIndex(sorted, UpperIndex(iter)))

\* every way a call of get_monte_carlo can end; cpus only goes to the sampler
Outcomes(iter, cp, out) ==
    IF iter = 0
    THEN {Frame(69, "return", "", None, FALSE, <<>>, <<>>, -1, <<>>, -1)}
    ELSE {Frame(75, "raise", "SamplerError", None, TRUE, <<>>, <<>>, -1, <<>>, -1)}
         \cup UNION {AfterSampling(raw, iter, out) : raw \in SamplerOutputs(iter)}

\* the constructor arguments the model draws from
IterationChoices == 0..MaxIter \cup {BigIter}
OutlierChoices == {0, 25, 250, 400}
CpuChoices == {0, 2}      \* 0 is cpus=None

\* Outcomes for every constructor argument, evaluated once
OutcomeTable ==
    [iter \in IterationChoices, cp \in CpuChoices, out \in OutlierChoices |->
        Outcomes(iter, cp, out)]

GetMonteCarlo(iter, cp, out) == OutcomeTable[iter, cp, out]

(***************************************************************************)
(* The constructor, and a direct call of get_monte_carlo.                  *)
(***************************************************************************)
Uuids == {"u1", "u2"}     \* values uuid.uuid4().hex can take
NoUrl == <<>>             \* report_server_url missing
ConfigChoices ==
    { [upload_reports |-> FALSE, report_server_url |-> <<"h">>],
      [upload_reports |-> TRUE, report_server_url |-> NoUrl],
      [upload_reports |-> TRUE, report_server_url |-> <<"h">>],
      [upload_reports |-> TRUE, report_server_url |-> <<"h", "/">>] }
NoReport == [set |-> FALSE]
NoRet == [op |-> "none", kind |-> "none", value |-> None, posted |-> <<>>, status |-> 0]

\* __init__
Construct(iters, outs, cps, ids, cfgs) ==
    /\ iterations \in iters
    /\ outliers \in outs
    /\ cpus \in cps
    /\ uuid \in ids
    /\ config \in cfgs
    /\ report = NoReport
    /\ pc = 0
    /\ log = <<>>
    /\ mc = NoFrame
    /\ files = {}
    /\ ret = NoRet

InitMC ==
    Construct(IterationChoices, OutlierChoices, CpuChoices,
              {"u1"}, {[upload_reports |-> FALSE, report_server_url |-> NoUrl]})

\* get_monte_carlo() called on a fresh instance.  The method assigns no
\* attribute, so a later call has the outcomes of the first.
MonteCarloCall ==
    /\ pc = 0
    /\ ~mc.called
    /\ \E f \in GetMonteCarlo(iterations, cpus, outliers) : mc' = f
    /\ UNCHANGED <<iterations, cpus, outliers, uuid, config, report, pc, log,
                   files, ret>>

NextMC == MonteCarloCall

SpecMC == InitMC /\ [][NextMC]_vars

(***************************************************************************)
(* calculate().  The collaborator calls in program order; pc counts the    *)
(* calls that have returned, 0 outside calculate().  Control is in one     *)
(* place: write() and upload() run only when no calculate() is under way.  *)
(***************************************************************************)
\* (a faulty variant: the graph traversal before the contribution analysis)
CalcOrderMutant ==
    << "LCA.lci", "LCA.lcia",
       "GraphTraversal.calculate",
       "ContributionAnalysis.hinton_matrix", "ContributionAnalysis.d3_treemap",
       "ContributionAnalysis.herfindahl_index",
       "ContributionAnalysis.concentration_ratio",
       "get_monte_carlo" >>

CalcOrder ==
    << "LCA.lci", "LCA.lcia",
       "ContributionAnalysis.hinton_matrix", "ContributionAnalysis.d3_treemap",
       "ContributionAnalysis.herfindahl_index",
       "ContributionAnalysis.concentration_ratio",
       "GraphTraversal.calculate",
       "get_monte_carlo" >>

Ret(op, kind, value) ==
    [op |-> op, kind |-> kind, value |-> value, posted |-> NoUrl, status |-> 0]

\* calculate() has been entered and has not ended
Running == Ret("calculate", "running", None)

\* (a faulty variant: the identifier is made when the mapping is assembled)
AssembleReportMutant(id, montecarlo) ==
    [set |-> TRUE,
     value |-> [activity |-> "activity", method |-> "method", score |-> "score",
                contribution |-> "contribution",
                force_directed |-> "force_directed",
                monte_carlo |-> montecarlo,
                metadata |-> [type |-> "Brightway2 serialized LCA report",
                              version |-> version, uuid |-> "fresh"]]]

\* the mapping assigned to self.report at line 42
AssembleReport(id, montecarlo) ==
    [set |-> TRUE,
     value |-> [activity |-> "activity", method |-> "method", score |-> "score",
                contribution |-> "contribution",
                force_directed |-> "force_directed",
                monte_carlo |-> montecarlo,
                metadata |-> [type |-> "Brightway2 serialized LCA report",
                              version |-> version, uuid |-> id]]]

\* (a faulty variant: the mapping is assigned first and the Monte Carlo entry added
\* to it afterwards, so an exception leaves it without that entry)
ReportAfterRaiseMutant(old, id) ==
    [set |-> TRUE,
     value |-> [activity |-> "activity", method |-> "method", score |-> "score",
                contribution |-> "contribution",
                force_directed |-> "force_directed",
                metadata |-> [type |-> "Brightway2 serialized LCA report",
                              version |-> version, uuid |-> id]]]

\* self.report after an exception inside calculate(): the assignment of
\* line 42 happens after its right-hand side is evaluated, so it is not made
ReportAfterRaise(old, id) == old

\* a collaborator before get_monte_carlo is called and returns
CallCollaborator ==
    /\ pc < Len(CalcOrder) - 1
    /\ log' = (IF pc = 0 THEN <<>> ELSE log) \o <<CalcOrder[pc + 1]>>
    /\ pc' = pc + 1
    /\ ret' = Running
    /\ UNCHANGED <<iterations, cpus, outliers, uuid, config, report, mc, files>>

\* a collaborator before get_monte_carlo is called and raises
CollaboratorFails ==
    /\ pc < Len(CalcOrder) - 1
    /\ log' = (IF pc = 0 THEN <<>> ELSE log) \o <<CalcOrder[pc + 1]>>
    /\ pc' = 0
    /\ report' = ReportAfterRaise(report, uuid)
    /\ ret' = Ret("calculate", "raise", [exc |-> CalcOrder[pc + 1]])
    /\ UNCHANGED <<iterations, cpus, outliers, uuid, config, mc, files>>

\* get_monte_carlo is called (line 57); then the mapping is assigned
MonteCarloStep ==
    /\ pc = Len(CalcOrder) - 1
    /\ log' = log \o <<CalcOrder[pc + 1]>>
    /\ pc' = 0
    /\ \E f \in GetMonteCarlo(iterations, cpus, outliers) :
          IF f.outcome = "raise"
          THEN /\ report' = ReportAfterRaise(report, uuid)
               /\ ret' = Ret("calculate", "raise", [exc |-> f.exc])
          ELSE /\ report' = AssembleReport(uuid, f.value)
               /\ ret' = Ret("calculate", "return", None)
    /\ UNCHANGED <<iterations, cpus, outliers, uuid, config, mc, files>>

(***************************************************************************)
(* write()                                                                 *)
(***************************************************************************)
\* "report.%s.json" % self.uuid
ReportFile(id) == <<"report.", id, ".json">>

Write ==
    /\ pc = 0
    /\ IF report.set
       THEN /\ files' = files \cup {ReportFile(uuid)}
            /\ ret' = Ret("write", "return", None)
       ELSE /\ files' = files
            /\ ret' = Ret("write", "raise", [exc |-> "AttributeError"])
    /\ UNCHANGED <<iterations, cpus, outliers, uuid, config, report, pc, log,
                   mc>>

(***************************************************************************)
(* upload()                                                                *)
(***************************************************************************)
Statuses == {StatusOK, 404}

\* (a faulty variant: the flag is not looked at)
UploadAllowedMutant(cfg) == cfg.report_server_url # NoUrl

\* the condition of lines 131-132, negated
UploadAllowed(cfg) == cfg.upload_reports /\ cfg.report_server_url # NoUrl

\* lines 134-136
BaseUrl(url) == IF url[Len(url)] # "/" THEN url \o <<"/">> ELSE url

\* url + "upload"
PostUrl(url) == BaseUrl(url) \o <<"upload">>

\* url + "report/" + self.uuid
ReportUrl(url, id) == BaseUrl(url) \o <<"report/", id>>

\* self.report["metadata"]["online"] = report_url
SetOnline(rep, url) ==
    [rep EXCEPT !.value.metadata =
        [k \in DOMAIN @ \cup {"online"} |-> IF k = "online" THEN url ELSE @[k]]]

\* ValueError, raised before anything else
UploadNotAllowed ==
    /\ pc = 0
    /\ ~UploadAllowed(config)
    /\ ret' = Ret("upload", "raise", [exc |-> "ValueError"])
    /\ UNCHANGED <<iterations, cpus, outliers, uuid, config, report, pc, log,
                   mc, files>>

\* self.report is read for the request body: AttributeError when unassigned
UploadNoReport ==
    /\ pc = 0
    /\ UploadAllowed(config)
    /\ ~report.set
    /\ ret' = Ret("upload", "raise", [exc |-> "AttributeError"])
    /\ UNCHANGED <<iterations, cpus, outliers, uuid, config, report, pc, log,
                   mc, files>>

\* the POST is sent and answered
UploadAnswered ==
    /\ pc = 0
    /\ UploadAllowed(config)
    /\ report.set
    /\ \E status \in Statuses :
          IF status = StatusOK
          THEN /\ report' = SetOnline(report, ReportUrl(config.report_server_url, uuid))
               /\ ret' = [Ret("upload", "return",
                              [url |-> ReportUrl(config.report_server_url, uuid)])
                            EXCEPT !.posted = PostUrl(config.report_server_url),
                                   !.status = status]
          ELSE /\ report' = report
               /\ ret' = [Ret("upload", "return", [false |-> TRUE])
                            EXCEPT !.posted = PostUrl(config.report_server_url),
                                   !.status = status]
    /\ UNCHANGED <<iterations, cpus, outliers, uuid, config, pc, log, mc, files>>

\* the POST is sent and requests.post raises
UploadUnanswered ==
    /\ pc = 0
    /\ UploadAllowed(config)
    /\ report.set
    /\ ret' = [Ret("upload", "raise", [exc |-> "RequestException"])
                 EXCEPT !.posted = PostUrl(config.report_server_url)]
    /\ UNCHANGED <<iterations, cpus, outliers, uuid, config, report, pc, log,
                   mc, files>>

Upload == UploadNotAllowed \/ UploadNoReport \/ UploadAnswered \/ UploadUnanswered

(***************************************************************************)
(* The life of a report: calculate(), write() and upload() in any order.   *)
(***************************************************************************)
LifeOutliers == {0, 400}

Init == Construct(0..LifeIter, LifeOutliers, {0}, Uuids, ConfigChoices)

Next ==
    \/ CallCollaborator
    \/ CollaboratorFails
    \/ MonteCarloStep
    \/ Write
    \/ Upload

Spec == Init /\ [][Next]_vars

(***************************************************************************)
(* Claims about the life of a report, checked under Spec.                  *)
(***************************************************************************)
IsPrefix(a, b) == Len(a) <= Len(b) /\ a = SubSeq(b, 1, Len(a))

\* C6: the uuid is set in the constructor and no call changes it; the
\* report metadata, the name of every file written and the URL of every
\* successful upload carry that value, and metadata version is 1.
C6_UuidStable ==
    /\ [][uuid' = uuid]_vars
    /\ [](/\ report.set =>
               /\ report.value.metadata.uuid = uuid
               /\ report.value.metadata.version = 1
               /\ "online" \in DOMAIN report.value.metadata =>
                     report.value.metadata.online[Len(report.value.metadata.online)] = uuid
          /\ \A f \in files : f = <<"report.", uuid, ".json">>
          /\ (ret.op = "upload" /\ ret.kind = "return" /\ ret.status = 200) =>
                ret.value.url[Len(ret.value.url)] = uuid)

\* calculate(), write() and a successful upload() have all happened
C6_Witness ==
    /\ report.set /\ "online" \in DOMAIN report.value.metadata
    /\ files # {}
    /\ ret.op = "upload" /\ ret.kind = "return" /\ ret.status = 200

\* <base-url>/report/<uuid>
ClaimedUrl ==
    LET b == config.report_server_url
        base == IF b[Len(b)] = "/" THEN SubSeq(b, 1, Len(b) - 1) ELSE b
    IN  base \o <<"/", "report/", uuid>>

Configured == config.upload_reports /\ config.report_server_url # <<>>

\* C7: upload() sets metadata 'online' to <base-url>/report/<uuid> and
\* returns that URL exactly when flag and URL are configured and the POST
\* is answered with 200; with either missing it raises ValueError before
\* any request and leaves the report alone; on another status it returns
\* False, raises nothing and leaves the report alone.
C7_Upload ==
    [][(ret'.op = "upload" /\ pc = 0 /\ pc' = 0) =>
        /\ ~Configured =>
              /\ ret'.kind = "raise" /\ ret'.value = [exc |-> "ValueError"]
              /\ ret'.posted = <<>>
              /\ report' = report
        /\ (Configured /\ ret'.posted # <<>> /\ ret'.status = 200) =>
              /\ ret'.kind = "return" /\ ret'.value = [url |-> ClaimedUrl]
              /\ report'.set /\ "online" \in DOMAIN report'.value.metadata
              /\ report'.value.metadata.online = ClaimedUrl
              /\ report'.value.monte_carlo = report.value.monte_carlo
              /\ report'.value.metadata.uuid = report.value.metadata.uuid
        /\ (Configured /\ ret'.posted # <<>> /\ ret'.status \notin {0, 200}) =>
              /\ ret'.kind = "return" /\ ret'.value = [false |-> TRUE]
              /\ report' = report
        /\ (report' # report \/ (ret'.kind = "return" /\ ret'.value # [false |-> TRUE])) =>
              Configured /\ ret'.posted # <<>> /\ ret'.status = 200
      ]_vars

\* a successful upload to a base URL that lacks the final slash
C7_Witness ==
    /\ ret.op = "upload" /\ ret.kind = "return" /\ ret.status = 200
    /\ config.report_server_url = <<"h">>
    /\ report.value.metadata.online = <<"h", "/", "report/", uuid>>

\* C8: a failure of a collaborator or of the sampler during calculate()
\* reaches the caller, and self.report is not assigned by that call: it
\* keeps the value it had before the call.
C8_NoPartialReport ==
    [][(ret'.op = "calculate" /\ ret'.kind # "return") => report' = report]_vars

\* the sampler fails in a calculate() that follows a successful one
C8_Witness ==
    /\ report.set
    /\ ret.op = "calculate" /\ ret.kind = "raise"
    /\ ret.value = [exc |-> "SamplerError"]

ClaimedOrder ==
    << "LCA.lci", "LCA.lcia",
       "ContributionAnalysis.hinton_matrix", "ContributionAnalysis.d3_treemap",
       "ContributionAnalysis.herfindahl_index",
       "ContributionAnalysis.concentration_ratio",
       "GraphTraversal.calculate",
       "get_monte_carlo" >>

\* C9: within one calculate() the collaborators are called one after the
\* other: the LCA engine (lci, lcia), the contribution analyzer (hinton
\* matrix, treemap, Herfindahl index, concentration ratio), the graph
\* traversal, the Monte Carlo post-processor; each starts when the one
\* before has returned, and the report is assigned after all of them.
C9_Order ==
    [][/\ IsPrefix(log', ClaimedOrder)
       /\ pc' # 0 => pc' = Len(log')
       /\ log' # log =>
             \/ pc = 0 /\ log' = <<ClaimedOrder[1]>>
             \/ pc > 0 /\ pc = Len(log) /\ log' = Append(log, ClaimedOrder[pc + 1])
       /\ (ret'.op = "calculate" /\ ret'.kind = "return") => log' = ClaimedOrder
       /\ (ret'.op = "calculate" /\ report' # report) =>
             /\ log' = ClaimedOrder
             /\ pc = Len(ClaimedOrder) - 1
      ]_vars

C9_Witness ==
    /\ report.set /\ pc = 0 /\ log = ClaimedOrder
    /\ ret.op = "calculate" /\ ret.kind = "return"
    /\ report.value.monte_carlo # None

(***************************************************************************)
(* Claims about get_monte_carlo, checked under SpecMC.                     *)
(***************************************************************************)
\* the call got past the degeneracy check and trimmed the samples (line 84)
Trimmed == mc.called /\ mc.line \in {90, 101}
ReturnedSummary == mc.called /\ mc.line = 101
FloorOutliers == (outliers * iterations) \div 1000

\* C1: a sample set of size N = iterations that is not degenerate is trimmed
\* to N - 2*floor(outliers*N) elements, the floor(outliers*N) smallest and
\* largest removed, and to fewer than N elements when outliers > 0.
C1_TrimmedSize ==
    Trimmed =>
        /\ Len(mc.trimmed) = iterations - 2 * FloorOutliers
        /\ mc.trimmed = SubSeq(mc.sorted, FloorOutliers + 1, iterations - FloorOutliers)
        /\ (outliers > 0 => Len(mc.trimmed) < iterations)

\* C2: get_monte_carlo returns None without raising when iterations = 0,
\* and then the sampler is not invoked, and when the sampler's samples are
\* all one value; no summary is produced in either case.
C2_NoSummary ==
    mc.called =>
        /\ iterations = 0 =>
              ~mc.sampled /\ mc.outcome = "return" /\ mc.value = None
        /\ (iterations > 0 /\ Len(mc.raw) > 0
                /\ \A i \in DOMAIN mc.raw : mc.raw[i] = mc.raw[1]) =>
              mc.outcome = "return" /\ mc.value = None

C2_Witness ==
    /\ mc.called /\ iterations > 1 /\ mc.sampled /\ Len(mc.raw) = iterations
    /\ \A i \in DOMAIN mc.raw : mc.raw[i] = mc.raw[1]
    /\ mc.outcome = "return" /\ mc.value = None

\* C3: a returned summary's interval is the pair of untrimmed sorted samples
\* at floor(0.015*iterations) and floor(0.985*iterations), both in range,
\* so it is the same whatever the outliers parameter is.
C3_Interval ==
    /\ mc.called => mc.exc # "IndexError"
    /\ ReturnedSummary =>
        /\ (15 * iterations) \div 1000 < iterations
        /\ (985 * iterations) \div 1000 < iterations
        /\ mc.value.statistics.interval =
              << mc.sorted[(15 * iterations) \div 1000 + 1],
                 mc.sorted[(985 * iterations) \div 1000 + 1] >>
        /\ \A o \in OutlierChoices :
              \A f \in AfterSampling(mc.raw, iterations, o) :
                 f.line = 101 =>
                    f.value.statistics.interval = mc.value.statistics.interval

\* a summary of samples that stay distinct when trimmed, with a lower index
\* above 0 and a lower end that is not the smallest sample
C3_Witness ==
    /\ ReturnedSummary /\ UniqueCount(mc.trimmed) > 1
    /\ (15 * iterations) \div 1000 > 0
    /\ mc.value.statistics.interval[1] # mc.sorted[1]

\* C4: in a returned summary lower <= median <= upper, the median being
\* that of the trimmed samples and the interval that of the untrimmed.
C4_MedianInInterval ==
    ReturnedSummary =>
        /\ 2 * mc.value.statistics.interval[1] <= mc.value.statistics.median2
        /\ mc.value.statistics.median2 <= 2 * mc.value.statistics.interval[2]

C4_Witness ==
    /\ ReturnedSummary /\ UniqueCount(mc.trimmed) > 1
    /\ 2 * mc.value.statistics.interval[1] < mc.value.statistics.median2
    /\ mc.value.statistics.median2 < 2 * mc.value.statistics.interval[2]

\* C5: for iterations >= 1 the bin count is 100 and the histogram polyline
\* has 202 points: every one of the 101 edges twice in x, every one of the
\* 100 heights twice in y, no negative y, and y = 0 at both ends.
C5_Histogram ==
    /\ mc.called /\ mc.line \in {90, 101} => mc.num_bins = 100
    /\ ReturnedSummary =>
        LET h == mc.value.histogram
        IN  /\ Len(h) = 202
            /\ \A i \in 1..101 : h[2 * i - 1][1] = h[2 * i][1]
            /\ \A i \in 1..100 : h[2 * i - 1][1] < h[2 * i + 1][1]
            /\ \A i \in 1..100 : h[2 * i][2] = h[2 * i + 1][2]
            /\ \A i \in 1..202 : h[i][2] >= 0
            /\ h[1][2] = 0 /\ h[202][2] = 0

\* a histogram with two bins that are not empty
C5_Witness ==
    /\ ReturnedSummary /\ iterations >= 1
    /\ Cardinality({mc.value.histogram[i][2] : i \in 1..202}) >= 3

\* C10: past the degeneracy check the trimmed samples are not empty and
\* hold two distinct values, so min(trimmed) < max(trimmed) and the density
\* x-values of a summary are strictly ascending.
C10_TrimmedNotDegenerate ==
    /\ Trimmed =>
        /\ mc.trimmed # <<>>
        /\ UniqueCount(mc.trimmed) >= 2
    /\ ReturnedSummary =>
        /\ Len(mc.value.smoothed) = 500
        /\ \A i \in 1..499 : mc.value.smoothed[i][1] < mc.value.smoothed[i + 1][1]

====
